---- MODULE Spec2Model ----
(***************************************************************************)
(* Model of copy_google_maps_link_plugin.py: the CopyGoogleMapsLinkPlugin  *)
(* instance, the module global clicked_point_canvas_crs, and the parts of  *)
(* the host (canvas signal, QAction object, clipboard, message bar, log,   *)
(* coordinate transform) that the plugin's handlers touch.                 *)
(*                                                                         *)
(* Coordinates are Python floats.  A float is modelled as a record         *)
(*   [k |-> "fin", v |-> n]   the finite value n/10 (n an integer),        *)
(*   [k |-> "nan", v |-> 0]   NaN,                                         *)
(*   [k |-> "inf", v |-> s]   s * infinity, s in {-1, 1}.                  *)
(***************************************************************************)
EXTENDS Integers, Sequences, FiniteSets, TLC

(* ---------------------------------------------------------------- bounds *)

\* How many tenths of a degree beyond the accepted range the sampled
\* coordinates go (on each side).
Margin == 1

\* Cap on the number of simultaneous connections of the canvas signal to
\* prepare_canvas_context_menu (initGui connects once per call).
MaxConnections == 2

(* ------------------------------------------------------ program constants *)

\* 90 and 180 degrees (line 117), in tenths of a degree.
MaxLat == 900
MaxLon == 1800

(* ---------------------------------------------------------------- floats *)

Fin(n) == [k |-> "fin", v |-> n]
NaN    == [k |-> "nan", v |-> 0]
PosInf == [k |-> "inf", v |-> 1]
NegInf == [k |-> "inf", v |-> -1]

\* Python's float ==: NaN is equal to nothing, itself included.
PyEq(a, b) == a.k # "nan" /\ b.k # "nan" /\ a = b

\* Python's float <=: every comparison with NaN is false.
PyLe(a, b) ==
    IF a.k = "nan" \/ b.k = "nan" THEN FALSE
    ELSE IF a.k = "inf" THEN (a.v = -1 \/ b = a)
    ELSE IF b.k = "inf" THEN b.v = 1
    ELSE a.v <= b.v

\* Python's abs() on a float.
PyAbs(a) ==
    IF a.k = "fin" THEN Fin(IF a.v < 0 THEN -a.v ELSE a.v)
    ELSE IF a.k = "inf" THEN PosInf
    ELSE NaN

\* str() of a float as an f-string renders it: sign, integer part, ".",
\* fraction; "nan", "inf", "-inf" for the non-finite values.
PyFloatStr(a) ==
    IF a.k = "nan" THEN "nan"
    ELSE IF a.k = "inf" THEN (IF a.v < 0 THEN "-inf" ELSE "inf")
    ELSE LET m == IF a.v < 0 THEN -a.v ELSE a.v
         IN  (IF a.v < 0 THEN "-" ELSE "") \o ToString(m \div 10)
                 \o "." \o ToString(m % 10)

(* ---------------------------------------------------------------- points *)

\* QgsPointXY(x, y)
QgsPointXY(x, y) == [x |-> x, y |-> y]

\* The module global's initial value, and Python's None in general.
None == [none |-> TRUE]

\* Truth value of an object reference: None is false, a QgsPointXY (a
\* sequence of length 2), an event or a QAction is true.
Truthy(obj) == obj # None


\* The QAction created in __init__ (line 38), as a menu item and as the
\* value of self.context_menu_action.
QAction == [text |-> "Copy Google Maps Link Here"]

(* ------------------------------------------------------- sampled values *)

LonSamples ==
    {Fin(-740), NaN, PosInf, NegInf}
        \cup {Fin(s * (MaxLon + d)) : s \in {-1, 1}, d \in 0..Margin}

LatSamples ==
    {Fin(407), NaN, PosInf, NegInf}
        \cup {Fin(s * (MaxLat + d)) : s \in {-1, 1}, d \in 0..Margin}

\* Points the projection engine may return.
TransformedPoints ==
    {QgsPointXY(x, Fin(407)) : x \in LonSamples}
        \cup {QgsPointXY(Fin(-740), y) : y \in LatSamples}
        \cup {QgsPointXY(Fin(MaxLon), Fin(MaxLat)),
              QgsPointXY(Fin(-MaxLon), Fin(-MaxLat))}

\* Texts of the exceptions transform() may raise.
TransformErrors == {"forward transform failed", "no operation available"}

\* What the projection engine would answer for a transform between two
\* different reference systems: an exception or a point.
Raises(m)  == [raises |-> TRUE,  msg |-> m,  pt |-> None]
Returns(p) == [raises |-> FALSE, msg |-> "", pt |-> p]
EngineAnswers ==
    {Raises(m) : m \in TransformErrors} \cup {Returns(p) : p \in TransformedPoints}

\* Map-space points a click event may carry (finite canvas coordinates).
ClickPoints ==
    {QgsPointXY(Fin(-740), Fin(407)), QgsPointXY(Fin(0), Fin(0)),
     QgsPointXY(Fin(MaxLon), Fin(MaxLat)),
     QgsPointXY(Fin(MaxLon + Margin), Fin(407))}

\* Events the canvas signal may carry: no event, or one with a map point.
Events == {None} \cup {[mapPoint |-> p] : p \in ClickPoints}

\* The canvas's destination CRS, by authid; "" is an invalid CRS.
CRSs == {"EPSG:4326", "EPSG:3857", ""}

\* The menu as the canvas built it before emitting the signal.
HostMenus == {<<>>, <<"Copy Coordinate">>}

\* QgsCoordinateReferenceSystem.isValid()
isValid(crs) == crs # ""

\* The host's state at one invocation of the copy handler: whether
\* EPSG:4326 can be constructed, and the projection engine's answer.
HostEnvs == [targetValid : BOOLEAN, engine : EngineAnswers]

(* ---------------------------------- copy_google_maps_link_from_context *)

NoExc == "<none>"

pushMessage(title, text, level) == [title |-> title, text |-> text, level |-> level]

\* A handler run in progress: the path label of the return taken, the
\* message-bar messages and log levels emitted, the host calls made, the
\* clipboard, the module global, and a pending exception (NoExc if none).
Run0(pt, clip) ==
    [outcome |-> "running", msgs |-> <<>>, logs |-> <<>>, calls |-> <<>>,
     clipboard |-> clip, clicked |-> pt, exc |-> NoExc]

\* Python's float <.
PyLt(a, b) == PyLe(a, b) /\ ~PyEq(a, b)

\* The range check with exclusive bounds.
IsInvalidWgs84Strict(p) ==
    \/ ~(PyEq(p.x, p.x) /\ PyEq(p.y, p.y))
    \/ PyEq(PyAbs(p.x), PosInf)
    \/ PyEq(PyAbs(p.y), PosInf)
    \/ ~(PyLt(Fin(-MaxLat), p.y) /\ PyLt(p.y, Fin(MaxLat))
            /\ PyLt(Fin(-MaxLon), p.x) /\ PyLt(p.x, Fin(MaxLon)))

\* Lines 115-117: the condition under which the transformed point is
\* rejected.
IsInvalidWgs84(p) ==
    \/ ~(PyEq(p.x, p.x) /\ PyEq(p.y, p.y))
    \/ PyEq(PyAbs(p.x), PosInf)
    \/ PyEq(PyAbs(p.y), PosInf)
    \/ ~(PyLe(Fin(-MaxLat), p.y) /\ PyLe(p.y, Fin(MaxLat))
            /\ PyLe(Fin(-MaxLon), p.x) /\ PyLe(p.x, Fin(MaxLon)))

\* The link with longitude (x) first.
GoogleMapsLinkLonFirst(p) ==
    "https://www.google.com/maps?q=" \o PyFloatStr(p.x) \o "," \o PyFloatStr(p.y)

\* Line 124: the link, latitude (y) first.
GoogleMapsLink(p) ==
    "https://www.google.com/maps?q=" \o PyFloatStr(p.y) \o "," \o PyFloatStr(p.x)

\* Lines 109-112: QgsCoordinateTransform(src, dst, project).transform(p).
\* Equal source and destination make the transform the identity; otherwise
\* the projection engine answers.
transform(src, dst, p, engine) ==
    IF src = dst THEN Returns(p) ELSE engine

\* The early return without the message-bar message.
NoPointReturnSilent(r) ==
    [r EXCEPT !.outcome = "NoPointCaptured", !.logs = Append(@, "Warning")]

\* Lines 86-89: the early return when the global holds no point.
NoPointReturn(r) ==
    [r EXCEPT !.outcome = "NoPointCaptured",
              !.msgs = Append(@, pushMessage("Error",
                  "Could not get clicked point. Please right-click on the map again.",
                  "Critical")),
              !.logs = Append(@, "Warning")]

\* Lines 123-130: the success path, with the valid transformed point p.
CopyLink(r, p) ==
    LET google_maps_link == GoogleMapsLink(p)
    IN  [r EXCEPT !.outcome = "Success",
                  !.calls = Append(@, "setText"),
                  !.clipboard = google_maps_link,
                  !.msgs = Append(@, pushMessage("Success",
                      "Google Maps link copied: " \o google_maps_link,
                      "Success"))]

\* Lines 114-121: the check of the transformed point p.
CheckTransformed(r, p) ==
    IF IsInvalidWgs84(p)
    THEN [r EXCEPT !.outcome = "InvalidTransformResult",
                   !.msgs = Append(@, pushMessage("Error",
                       "Coordinate transformation failed or resulted in invalid WGS84 coordinates. Check project CRS.",
                       "Critical")),
                   !.logs = Append(@, "Critical"),
                   !.clicked = None]
    ELSE CopyLink(r, p)

\* Lines 108-112: the transform of the global; an exception leaves the
\* try body.
TransformPoint(r, crs, env) ==
    LET ans == transform(crs, "EPSG:4326", r.clicked, env.engine)
        r1  == [r EXCEPT !.calls = Append(@, "transform")]
    IN  IF ans.raises
        THEN [r1 EXCEPT !.exc = ans.msg]
        ELSE CheckTransformed(r1, ans.pt)

\* Lines 100-106: the target CRS.
CheckTargetCrs(r, crs, env) ==
    LET r1 == [r EXCEPT !.calls = Append(@, "QgsCoordinateReferenceSystem")]
    IN  IF ~env.targetValid
        THEN [r1 EXCEPT !.outcome = "InvalidTargetCRS",
                        !.msgs = Append(@, pushMessage("Error",
                            "Could not define target CRS (EPSG:4326).",
                            "Critical")),
                        !.logs = Append(@, "Critical"),
                        !.clicked = None]
        ELSE TransformPoint(r1, crs, env)

\* The try body without the check of the canvas CRS.
TryBodyNoSourceCheck(r, crs, env) ==
    CheckTargetCrs([r EXCEPT !.calls = Append(@, "destinationCrs")], crs, env)

\* Lines 92-131: the body of the try statement, from the canvas CRS on.
TryBody(r, crs, env) ==
    LET r1 == [r EXCEPT !.calls = Append(@, "destinationCrs")]
    IN  IF ~isValid(crs)
        THEN [r1 EXCEPT !.outcome = "InvalidSourceCRS",
                        !.msgs = Append(@, pushMessage("Error",
                            "Invalid Canvas CRS. Cannot perform transformation.",
                            "Critical")),
                        !.logs = Append(@, "Critical"),
                        !.clicked = None]
        ELSE CheckTargetCrs(r1, crs, env)

\* The try statement without its except clause: the exception stays
\* pending.
NoExceptClause(r) == r

\* Lines 133-136: except Exception as e.
ExceptClause(r) ==
    IF r.exc = NoExc THEN r
    ELSE LET error_message == "Error copying Google Maps link: " \o r.exc
         IN  [r EXCEPT !.outcome = "TransformError",
                       !.msgs = Append(@, pushMessage("Error", error_message,
                                                       "Critical")),
                       !.logs = Append(@, "Critical"),
                       !.exc = NoExc]

\* The try statement without its finally clause.
NoFinallyClause(r) == r

\* Lines 137-139: finally.
FinallyClause(r) == [r EXCEPT !.clicked = None]

\* Lines 80-139: the whole handler, run with the global holding pt, the
\* canvas in crs, the clipboard holding clip and the host answering env.
copy_google_maps_link_from_context(pt, crs, clip, env) ==
    IF ~Truthy(pt)
    THEN NoPointReturn(Run0(pt, clip))
    ELSE FinallyClause(ExceptClause(TryBody(Run0(pt, clip), crs, env)))

(* ------------------------------------------ prepare_canvas_context_menu *)

\* menu.addAction(action) for a QAction: QWidget.addAction removes an
\* action that the widget already holds before appending it, so a QAction
\* added twice appears once, at the end.
addAction(menu, action) ==
    SelectSeq(menu, LAMBDA item : item # action.text) \o <<action.text>>

\* The slot keeping a point that is already captured.
prepare_keeping_captured_point(st, event, action, noneRaises) ==
    IF Truthy(event) /\ Truthy(event.mapPoint)
    THEN LET stored == [st EXCEPT !.clicked = IF Truthy(@) THEN @
                                               ELSE QgsPointXY(event.mapPoint.x,
                                                               event.mapPoint.y),
                                  !.stored = ~Truthy(st.clicked),
                                  !.menu = Append(@, "separator")]
         IN  IF Truthy(action)
             THEN [stored EXCEPT !.menu = addAction(@, action)]
             ELSE [stored EXCEPT !.raised = @ + (IF noneRaises THEN 1 ELSE 0)]
    ELSE [st EXCEPT !.logs = Append(@, "Warning")]

\* The slot clearing the global when the event is invalid.
prepare_clearing_on_invalid(st, event, action, noneRaises) ==
    IF Truthy(event) /\ Truthy(event.mapPoint)
    THEN LET stored == [st EXCEPT !.clicked = QgsPointXY(event.mapPoint.x,
                                                         event.mapPoint.y),
                                  !.stored = TRUE,
                                  !.menu = Append(@, "separator")]
         IN  IF Truthy(action)
             THEN [stored EXCEPT !.menu = addAction(@, action)]
             ELSE [stored EXCEPT !.raised = @ + (IF noneRaises THEN 1 ELSE 0)]
    ELSE [st EXCEPT !.logs = Append(@, "Warning"), !.clicked = None]

\* Lines 57-77: one invocation of the slot.  st carries the menu, the
\* module global, whether this event stored it, the log levels written and
\* the number of exceptions that left the slot; action is
\* self.context_menu_action.  With action None the separator has been
\* added when addAction(None) is reached; the binding either raises
\* TypeError (noneRaises) or passes a null pointer that Qt ignores: in
\* both cases no entry is added.
prepare_canvas_context_menu(st, event, action, noneRaises) ==
    IF Truthy(event) /\ Truthy(event.mapPoint)
    THEN LET stored == [st EXCEPT !.clicked = QgsPointXY(event.mapPoint.x,
                                                         event.mapPoint.y),
                                  !.stored = TRUE,
                                  !.menu = Append(@, "separator")]
         IN  IF Truthy(action)
             THEN [stored EXCEPT !.menu = addAction(@, action)]
             ELSE [stored EXCEPT !.raised = @ + (IF noneRaises THEN 1 ELSE 0)]
    ELSE [st EXCEPT !.logs = Append(@, "Warning")]

\* The canvas emits contextMenuAboutToShow(menu, event): the slot runs once
\* per connection made in initGui.
RECURSIVE Emit(_, _, _, _, _)
Emit(n, st, event, action, noneRaises) ==
    IF n = 0 THEN st
    ELSE Emit(n - 1, prepare_canvas_context_menu(st, event, action, noneRaises),
              event, action, noneRaises)

(* ---------------------------------------------------------------- unload *)

\* The disconnect without the except TypeError clause.
DisconnectUncaught(alive, conns) ==
    IF ~alive
    THEN [connections |-> conns, branch |-> "Exception", log |-> "Warning",
          raised |-> FALSE]
    ELSE IF conns = 0
    THEN [connections |-> conns, branch |-> "TypeError", log |-> "Warning",
          raised |-> TRUE]
    ELSE [connections |-> conns - 1, branch |-> "disconnected", log |-> "Info",
          raised |-> FALSE]

\* Lines 148-156: the disconnect, as the try statement leaves it.  A
\* deleted canvas makes the attribute access raise RuntimeError, caught by
\* except Exception; no connection left makes disconnect raise TypeError,
\* caught by except TypeError; both are logged as warnings.
Disconnect(alive, conns) ==
    IF ~alive
    THEN [connections |-> conns, branch |-> "Exception", log |-> "Warning",
          raised |-> FALSE]
    ELSE IF conns = 0
    THEN [connections |-> conns, branch |-> "TypeError", log |-> "Warning",
          raised |-> FALSE]
    ELSE [connections |-> conns - 1, branch |-> "disconnected", log |-> "Info",
          raised |-> FALSE]

\* The release as it was without the None and sip.isdeleted guards:
\* deleteLater on every unload.
ReleaseActionUnguarded(action, qobj) ==
    [action |-> None, qobj |-> IF qobj = "deleted" THEN qobj ELSE "deleteLater",
     branch |-> "deleteLater", logs |-> <<"Info">>, released |-> 1]

\* The release without line 167: the reference is kept after deleteLater.
ReleaseActionKeepsReference(action, qobj) ==
    IF Truthy(action)
    THEN IF qobj # "deleted"
         THEN [action |-> action, qobj |-> "deleteLater", branch |-> "deleteLater",
               logs |-> <<"Info">>, released |-> 1]
         ELSE [action |-> action, qobj |-> qobj, branch |-> "alreadyDeleted",
               logs |-> <<"Info">>, released |-> 0]
    ELSE [action |-> action, qobj |-> qobj, branch |-> "noAction",
          logs |-> <<>>, released |-> 0]

\* Lines 158-167: the release of the QAction.  qobj is the state of the
\* C++ object: "alive", "deleteLater" (released by the plugin) or
\* "deleted" (deleted by the host with its parent canvas).
ReleaseAction(action, qobj) ==
    IF Truthy(action)
    THEN IF qobj # "deleted"
         THEN [action |-> None, qobj |-> "deleteLater", branch |-> "deleteLater",
               logs |-> <<"Info">>, released |-> 1]
         ELSE [action |-> None, qobj |-> qobj, branch |-> "alreadyDeleted",
               logs |-> <<"Info">>, released |-> 0]
    ELSE [action |-> action, qobj |-> qobj, branch |-> "noAction",
          logs |-> <<>>, released |-> 0]

(* ----------------------------------------------------------------- state *)

VARIABLES
    clicked_point_canvas_crs,   \* the module global (line 12)
    context_menu_action,        \* self.context_menu_action: QAction or None
    qaction,                    \* the QAction's C++ object
    canvasAlive,                \* whether the canvas C++ object exists
    connections,                \* connections of contextMenuAboutToShow to the slot
    canvasCrs,                  \* canvas.mapSettings().destinationCrs()
    clipboard,                  \* QApplication.clipboard() text
    lastOp,                     \* what the last operation did
    deleteLaterCalls,           \* how often unload called deleteLater (line 163)
    activated,                  \* the host's view: initGui done, unload not yet
    capturedCrs                 \* the canvas CRS when the global was stored

vars == <<clicked_point_canvas_crs, context_menu_action, qaction, canvasAlive,
          connections, canvasCrs, clipboard, lastOp, deleteLaterCalls,
          activated, capturedCrs>>

\* capturedCrs while the global holds no point.
NoCrs == "<no point>"

\* The CRS the point held by the global was captured in.
CrsOf(point, crs) == IF point = None THEN NoCrs ELSE crs

\* The clipboard's content before the plugin writes to it.
PriorClipboard == "text copied earlier"

\* Construction with the global preset to the origin instead of None.
InitWithOrigin ==
    /\ clicked_point_canvas_crs = QgsPointXY(Fin(0), Fin(0))
    /\ context_menu_action = QAction
    /\ qaction = "alive"
    /\ canvasAlive = TRUE
    /\ connections = 0
    /\ canvasCrs \in CRSs
    /\ clipboard = PriorClipboard
    /\ lastOp = [op |-> "__init__", raised |-> FALSE, msgs |-> <<>>,
                 logs |-> <<"Info">>]
    /\ deleteLaterCalls = 0
    /\ activated = FALSE
    /\ capturedCrs = CrsOf(clicked_point_canvas_crs, canvasCrs)

\* Lines 11-12 and 23-41: the module is imported and the plugin
\* constructed; the canvas may be in any CRS.
Init ==
    /\ clicked_point_canvas_crs = None
    /\ context_menu_action = QAction
    /\ qaction = "alive"
    /\ canvasAlive = TRUE
    /\ connections = 0
    /\ canvasCrs \in CRSs
    /\ clipboard = PriorClipboard
    /\ lastOp = [op |-> "__init__", raised |-> FALSE, msgs |-> <<>>,
                 logs |-> <<"Info">>]
    /\ deleteLaterCalls = 0
    /\ activated = FALSE
    /\ capturedCrs = CrsOf(clicked_point_canvas_crs, canvasCrs)

\* Lines 44-54.  On a deleted canvas the attribute access raises
\* RuntimeError and nothing is connected.
initGui ==
    /\ connections < MaxConnections
    /\ IF canvasAlive
       THEN /\ connections' = connections + 1
            /\ activated' = TRUE
            /\ lastOp' = [op |-> "initGui", raised |-> FALSE, msgs |-> <<>>,
                          logs |-> <<"Info">>]
       ELSE /\ connections' = connections
            /\ activated' = activated
            /\ lastOp' = [op |-> "initGui", raised |-> TRUE, msgs |-> <<>>,
                          logs |-> <<>>]
    /\ UNCHANGED <<clicked_point_canvas_crs, context_menu_action, qaction,
                   canvasAlive, canvasCrs, clipboard, deleteLaterCalls,
                   capturedCrs>>

\* The user right-clicks the canvas: the canvas builds its menu and emits
\* contextMenuAboutToShow(menu, event) to every connected slot.
ContextMenuAboutToShow ==
    /\ canvasAlive
    /\ \E event \in Events, menu \in HostMenus, noneRaises \in BOOLEAN :
          LET st0 == [menu |-> menu, clicked |-> clicked_point_canvas_crs,
                      stored |-> FALSE, logs |-> <<>>, raised |-> 0]
              st  == Emit(connections, st0, event, context_menu_action,
                          noneRaises)
          IN  /\ clicked_point_canvas_crs' = st.clicked
              /\ capturedCrs' = IF st.stored THEN canvasCrs ELSE capturedCrs
              /\ lastOp' = [op |-> "prepare_canvas_context_menu",
                            raised |-> st.raised > 0, msgs |-> <<>>,
                            logs |-> st.logs, event |-> event,
                            menuBefore |-> menu, menu |-> st.menu,
                            stored |-> st.stored, slotCalls |-> connections,
                            clickedBefore |-> clicked_point_canvas_crs,
                            clipboardBefore |-> clipboard,
                            actionBefore |-> context_menu_action]
    /\ UNCHANGED <<context_menu_action, qaction, canvasAlive, connections,
                   canvasCrs, clipboard, deleteLaterCalls, activated>>

\* The QAction's triggered signal fires (line 39): the copy handler runs.
\* Only a live QAction can be triggered.
CopyTriggered ==
    /\ qaction = "alive"
    /\ \E env \in HostEnvs :
          LET r == copy_google_maps_link_from_context(
                       clicked_point_canvas_crs, canvasCrs, clipboard, env)
          IN  /\ clicked_point_canvas_crs' = r.clicked
              /\ capturedCrs' = CrsOf(r.clicked, capturedCrs)
              /\ clipboard' = r.clipboard
              /\ lastOp' = [op |-> "copy_google_maps_link_from_context",
                            raised |-> r.exc # NoExc, msgs |-> r.msgs,
                            logs |-> r.logs, outcome |-> r.outcome,
                            calls |-> r.calls, env |-> env,
                            clickedBefore |-> clicked_point_canvas_crs,
                            crs |-> canvasCrs, clipboardBefore |-> clipboard]
    /\ UNCHANGED <<context_menu_action, qaction, canvasAlive, connections,
                   canvasCrs, deleteLaterCalls, activated>>

\* Lines 142-169.  An exception leaving the disconnect would end the
\* method before the QAction is released.
unload ==
    LET d == Disconnect(canvasAlive, connections)
        a == IF d.raised
             THEN [action |-> context_menu_action, qobj |-> qaction,
                   branch |-> "notReached", logs |-> <<>>, released |-> 0]
             ELSE ReleaseAction(context_menu_action, qaction)
    IN  /\ connections' = d.connections
        /\ context_menu_action' = a.action
        /\ qaction' = a.qobj
        /\ deleteLaterCalls' = deleteLaterCalls + a.released
        /\ activated' = (d.raised /\ activated)
        /\ lastOp' = [op |-> "unload", raised |-> d.raised, msgs |-> <<>>,
                      logs |-> IF d.raised THEN <<>>
                               ELSE <<d.log>> \o a.logs \o <<"Info">>,
                      disconnect |-> d.branch, release |-> a.branch,
                      clickedBefore |-> clicked_point_canvas_crs,
                      clipboardBefore |-> clipboard]
        /\ UNCHANGED <<clicked_point_canvas_crs, canvasAlive, canvasCrs,
                       clipboard, capturedCrs>>

\* The user changes the project's CRS.
CanvasCrsChanged ==
    /\ canvasAlive
    /\ \E crs \in CRSs \ {canvasCrs} : canvasCrs' = crs
    /\ lastOp' = [op |-> "destinationCrsChanged", raised |-> FALSE,
                  msgs |-> <<>>, logs |-> <<>>]
    /\ UNCHANGED <<clicked_point_canvas_crs, context_menu_action, qaction,
                   canvasAlive, connections, clipboard, deleteLaterCalls,
                   activated, capturedCrs>>

\* The host destroys the canvas: its child QAction is deleted with it and
\* its signal connections are gone.
CanvasDestroyed ==
    /\ canvasAlive
    /\ canvasAlive' = FALSE
    /\ qaction' = IF qaction = "alive" THEN "deleted" ELSE qaction
    /\ connections' = 0
    /\ lastOp' = [op |-> "canvasDestroyed", raised |-> FALSE, msgs |-> <<>>,
                  logs |-> <<>>]
    /\ UNCHANGED <<clicked_point_canvas_crs, context_menu_action, canvasCrs,
                   clipboard, deleteLaterCalls, activated, capturedCrs>>

Next ==
    \/ initGui
    \/ ContextMenuAboutToShow
    \/ CopyTriggered
    \/ unload
    \/ CanvasCrsChanged
    \/ CanvasDestroyed

Spec == Init /\ [][Next]_vars

(* ---------------------------------------------------------------- claims *)

IsCopy == lastOp.op = "copy_google_maps_link_from_context"
IsPrepare == lastOp.op = "prepare_canvas_context_menu"
IsUnload == lastOp.op = "unload"

Outcomes ==
    {"NoPointCaptured", "InvalidSourceCRS", "InvalidTargetCRS", "TransformError",
     "InvalidTransformResult", "Success"}

\* What transform() answers in the run lastOp records.
Answer ==
    IF lastOp.crs = "EPSG:4326" THEN Returns(lastOp.clickedBefore)
    ELSE lastOp.env.engine

\* A coordinate pair that is no WGS84 position: a non-finite component, a
\* latitude outside [-90, 90] or a longitude outside [-180, 180].
NotWgs84(p) ==
    \/ p.x.k # "fin"
    \/ p.y.k # "fin"
    \/ p.y.v < -900 \/ p.y.v > 900
    \/ p.x.v < -1800 \/ p.x.v > 1800

\* The decimal text of the accepted sample coordinates.
Decimal(a) ==
    CASE a = Fin(407)   -> "40.7"
      [] a = Fin(-740)  -> "-74.0"
      [] a = Fin(0)     -> "0.0"
      [] a = Fin(900)   -> "90.0"
      [] a = Fin(-900)  -> "-90.0"
      [] a = Fin(1800)  -> "180.0"
      [] a = Fin(-1800) -> "-180.0"
      [] OTHER          -> "?"

\* C1: after any invocation of the copy handler, whatever its outcome and
\* whatever the state before it, the module global holds no point.
C1_ClearedAfterCopy ==
    IsCopy => clicked_point_canvas_crs = None

\* A copy that ended in TransformError with a point captured before it.
C1_Witness ==
    /\ IsCopy
    /\ lastOp.clickedBefore # None
    /\ lastOp.outcome = "TransformError"
    /\ clicked_point_canvas_crs = None

\* C2: a copy triggered while no point is captured yields NoPointCaptured:
\* one error message, no clipboard write, no CRS lookup, no transform, and
\* still no point captured.
C2_NoPointCaptured ==
    (IsCopy /\ lastOp.clickedBefore = None) =>
        /\ lastOp.outcome = "NoPointCaptured"
        /\ Len(lastOp.msgs) = 1
        /\ lastOp.msgs[1].title = "Error"
        /\ lastOp.msgs[1].level = "Critical"
        /\ clipboard = lastOp.clipboardBefore
        /\ lastOp.calls = <<>>
        /\ clicked_point_canvas_crs = None

\* A copy triggered with no point, on a canvas and host where every later
\* step would have succeeded.
C2_Witness ==
    /\ IsCopy
    /\ lastOp.clickedBefore = None
    /\ lastOp.crs = "EPSG:3857"
    /\ lastOp.env.targetValid
    /\ ~lastOp.env.engine.raises
    /\ ~NotWgs84(lastOp.env.engine.pt)
    /\ lastOp.outcome = "NoPointCaptured"

\* The outcome the fixed order of checks decides, and the host calls made
\* up to the deciding check.
FirstFailing ==
    IF lastOp.clickedBefore = None THEN "NoPointCaptured"
    ELSE IF lastOp.crs = "" THEN "InvalidSourceCRS"
    ELSE IF ~lastOp.env.targetValid THEN "InvalidTargetCRS"
    ELSE IF Answer.raises THEN "TransformError"
    ELSE IF NotWgs84(Answer.pt) THEN "InvalidTransformResult"
    ELSE "Success"

CallsUpTo(outcome) ==
    CASE outcome = "NoPointCaptured"  -> <<>>
      [] outcome = "InvalidSourceCRS" -> <<"destinationCrs">>
      [] outcome = "InvalidTargetCRS" ->
             <<"destinationCrs", "QgsCoordinateReferenceSystem">>
      [] outcome \in {"TransformError", "InvalidTransformResult"} ->
             <<"destinationCrs", "QgsCoordinateReferenceSystem", "transform">>
      [] OTHER ->
             <<"destinationCrs", "QgsCoordinateReferenceSystem", "transform",
               "setText">>

\* C3: every copy ends in exactly one of the six outcomes, the one decided
\* by the first failing check in the order point, source CRS, target CRS,
\* transform exception, transformed coordinate; no later check is
\* evaluated after the deciding one.
C3_FirstFailingCheck ==
    IsCopy =>
        /\ lastOp.outcome \in Outcomes
        /\ lastOp.outcome = FirstFailing
        /\ lastOp.calls = CallsUpTo(FirstFailing)
        /\ Len(lastOp.msgs) = 1

\* An invalid canvas CRS with a point captured, a target CRS that cannot
\* be built and a transform that would raise.
C3_Witness ==
    /\ IsCopy
    /\ lastOp.clickedBefore # None
    /\ lastOp.crs = ""
    /\ ~lastOp.env.targetValid
    /\ lastOp.env.engine.raises
    /\ lastOp.outcome = "InvalidSourceCRS"

\* C4: once the transform has returned a coordinate, the copy yields
\* InvalidTransformResult with no clipboard write exactly when the
\* coordinate has a non-finite component, a latitude outside [-90, 90] or
\* a longitude outside [-180, 180]; otherwise (bounds included) it
\* succeeds.
C4_RangeCheck ==
    (IsCopy /\ lastOp.outcome \in {"InvalidTransformResult", "Success"}) =>
        /\ (lastOp.outcome = "InvalidTransformResult") <=> NotWgs84(Answer.pt)
        /\ (lastOp.outcome = "Success") <=> ~NotWgs84(Answer.pt)
        /\ NotWgs84(Answer.pt) =>
               /\ clipboard = lastOp.clipboardBefore
               /\ \A i \in 1..Len(lastOp.calls) : lastOp.calls[i] # "setText"
        /\ ~NotWgs84(Answer.pt) =>
               \E i \in 1..Len(lastOp.calls) : lastOp.calls[i] = "setText"

\* The transform returned the corner lat = 90, lon = 180 and the copy
\* succeeded.
C4_Witness ==
    /\ IsCopy
    /\ lastOp.crs = "EPSG:3857"
    /\ lastOp.clickedBefore # None
    /\ lastOp.env.targetValid
    /\ lastOp.env.engine = Returns(QgsPointXY(Fin(1800), Fin(900)))
    /\ lastOp.outcome = "Success"

\* C5: on success the clipboard holds
\* "https://www.google.com/maps?q=<lat>,<lon>" with lat the y and lon the x
\* of the transform of the captured point, and the one message shown is the
\* success message containing that link.
C5_LinkText ==
    (IsCopy /\ lastOp.outcome = "Success") =>
        /\ clipboard = "https://www.google.com/maps?q=" \o Decimal(Answer.pt.y)
                           \o "," \o Decimal(Answer.pt.x)
        /\ lastOp.msgs = << [title |-> "Success",
                             text  |-> "Google Maps link copied: " \o clipboard,
                             level |-> "Success"] >>

\* The point (x = -74.0, y = 40.7) clicked on a WGS84 canvas and copied.
C5_Witness ==
    /\ IsCopy
    /\ lastOp.outcome = "Success"
    /\ lastOp.crs = "EPSG:4326"
    /\ lastOp.clickedBefore = QgsPointXY(Fin(-740), Fin(407))
    /\ clipboard = "https://www.google.com/maps?q=40.7,-74.0"

\* C6: a failed copy raises nothing to the host, shows exactly one error
\* message and no success message, writes at least one log entry, leaves
\* the clipboard unchanged and no point captured; for TransformError the
\* message contains the exception's text.
C6_FailureRecovered ==
    (IsCopy /\ lastOp.outcome # "Success") =>
        /\ ~lastOp.raised
        /\ lastOp.outcome \in Outcomes
        /\ Len(lastOp.msgs) = 1
        /\ lastOp.msgs[1].title = "Error"
        /\ lastOp.msgs[1].level = "Critical"
        /\ Len(lastOp.logs) >= 1
        /\ clipboard = lastOp.clipboardBefore
        /\ clicked_point_canvas_crs = None
        /\ lastOp.outcome = "TransformError" =>
               lastOp.msgs[1].text =
                   "Error copying Google Maps link: " \o lastOp.env.engine.msg

\* A transform that raised "no operation available".
C6_Witness ==
    /\ IsCopy
    /\ lastOp.outcome = "TransformError"
    /\ lastOp.env.engine = Raises("no operation available")
    /\ lastOp.msgs[1].text =
           "Error copying Google Maps link: no operation available"

\* The event of the last emission carried a valid map point.
ValidEvent == lastOp.event # None

\* The last emission reached the slot (at least one connection).
Delivered == IsPrepare /\ lastOp.slotCalls >= 1

\* C7 as stated: after every context-menu event delivered to the slot, a
\* point held by the global was captured by that event, never by an
\* earlier one.
C7_OverwrittenByEveryClick ==
    (Delivered /\ clicked_point_canvas_crs # None) => lastOp.stored

\* C7 amended: after every delivered event that carries a valid map point
\* the global holds that event's point, whatever it held before; a
\* delivered event without a valid point leaves the global as it was.
C7_OverwrittenByValidClick ==
    Delivered =>
        IF ValidEvent
        THEN clicked_point_canvas_crs = lastOp.event.mapPoint /\ lastOp.stored
        ELSE clicked_point_canvas_crs = lastOp.clickedBefore /\ ~lastOp.stored

\* A valid click that replaced a different, unconsumed point.
C7_Witness ==
    /\ Delivered
    /\ ValidEvent
    /\ lastOp.clickedBefore # None
    /\ lastOp.clickedBefore # lastOp.event.mapPoint
    /\ clicked_point_canvas_crs = lastOp.event.mapPoint

\* The plugin is activated: the canvas signal is connected to the slot.
Activated == connections >= 1

\* C8: the global starts as None; while the plugin is activated a
\* right-click that captures a point is always possible (no terminal
\* state); every delivered right-click with a valid point leaves that point
\* captured, and every copy leaves no point captured.
C8_StateMachine ==
    /\ lastOp.op = "__init__" => clicked_point_canvas_crs = None
    /\ Activated =>
           ENABLED (ContextMenuAboutToShow /\ clicked_point_canvas_crs' # None)
    /\ (Delivered /\ ValidEvent) =>
           clicked_point_canvas_crs = lastOp.event.mapPoint
    /\ IsCopy => clicked_point_canvas_crs = None

\* A copy that returned the machine from PointCaptured to NoPointCaptured
\* with the plugin still activated.
C8_Witness ==
    /\ IsCopy
    /\ Activated
    /\ lastOp.clickedBefore # None
    /\ clicked_point_canvas_crs = None

\* What k invocations of the slot append to a menu: each a separator
\* followed by the entry, the one QAction ending up last.
RECURSIVE Separators(_)
Separators(k) == IF k = 0 THEN <<>> ELSE <<"separator">> \o Separators(k - 1)
Entries(k) == Separators(k) \o <<"Copy Google Maps Link Here">>

\* C9: a delivered event with a valid map point stores the point and
\* appends a separator followed by the "Copy Google Maps Link Here" entry
\* (once per slot invocation); a delivered invalid event leaves the menu
\* unmodified, shows no message, leaves the clipboard alone and only logs
\* a warning.
C9_MenuPrepared ==
    Delivered =>
        IF ValidEvent
        THEN /\ clicked_point_canvas_crs = lastOp.event.mapPoint
             /\ lastOp.menu = lastOp.menuBefore \o Entries(lastOp.slotCalls)
        ELSE /\ lastOp.menu = lastOp.menuBefore
             /\ lastOp.msgs = <<>>
             /\ clipboard = lastOp.clipboardBefore
             /\ ~lastOp.raised
             /\ \A i \in 1..Len(lastOp.logs) : lastOp.logs[i] = "Warning"

\* C10: a deactivation after an earlier one (the QAction reference is
\* already dropped) raises nothing, tolerates the missing connection,
\* shows no message, and leaves the clipboard and the captured point as
\* they were.
C10_SecondUnload ==
    (IsUnload /\ lastOp.release \in {"noAction", "notReached"}) =>
        /\ ~lastOp.raised
        /\ lastOp.release = "noAction"
        /\ lastOp.disconnect \in {"TypeError", "Exception", "disconnected"}
        /\ lastOp.msgs = <<>>
        /\ clipboard = lastOp.clipboardBefore
        /\ clicked_point_canvas_crs = lastOp.clickedBefore
        /\ context_menu_action = None

\* A second unload that met neither a connection nor a QAction, with a
\* point still captured.
C10_Witness ==
    /\ IsUnload
    /\ lastOp.release = "noAction"
    /\ lastOp.disconnect = "TypeError"
    /\ clicked_point_canvas_crs # None
    /\ ~lastOp.raised

\* C11: over any sequence of initGui and unload calls the QAction is
\* released exactly once: deleteLater is never called before the first
\* unload nor more than once in all; every unload leaves the reference
\* dropped, with the object released by the plugin or found deleted by the
\* host; a later unload releases nothing.
C11_ReleasedOnce ==
    /\ deleteLaterCalls <= 1
    /\ context_menu_action # None => deleteLaterCalls = 0
    /\ IsUnload =>
           /\ context_menu_action = None
           /\ deleteLaterCalls = 1 \/ qaction = "deleted"
           /\ lastOp.release = "deleteLater" =>
                  deleteLaterCalls = 1 /\ qaction = "deleteLater"
           /\ lastOp.release = "alreadyDeleted" =>
                  deleteLaterCalls = 0 /\ qaction = "deleted"

\* A later unload, after a re-activation (it found a connection to
\* remove), that met the reference already dropped and released nothing.
C11_Witness ==
    /\ IsUnload
    /\ lastOp.release = "noAction"
    /\ lastOp.disconnect = "disconnected"
    /\ deleteLaterCalls = 1
    /\ qaction = "deleteLater"

\* C12: the slot is subscribed exactly while the plugin is activated (an
\* initGui not yet followed by an unload): a right-click outside that
\* period reaches no slot, changes neither the global nor the menu, and a
\* right-click inside it is handled exactly once.
C12_SubscribedWhileActivated ==
    IsPrepare =>
        IF activated
        THEN lastOp.slotCalls = 1
        ELSE /\ lastOp.slotCalls = 0
             /\ clicked_point_canvas_crs = lastOp.clickedBefore
             /\ lastOp.menu = lastOp.menuBefore

\* C13: the global is written only by the menu-preparation slot and
\* cleared only by the copy handler: construction leaves it None, the slot
\* never turns a point into None, the copy handler never leaves a point,
\* initGui and unload leave it as it is, and no other step changes it.
C13_WritersOfClickedPoint ==
    /\ lastOp.op = "__init__" => clicked_point_canvas_crs = None
    /\ [][ /\ lastOp'.op = "prepare_canvas_context_menu" =>
                  (clicked_point_canvas_crs' = None =>
                       clicked_point_canvas_crs = None)
           /\ lastOp'.op = "copy_google_maps_link_from_context" =>
                  clicked_point_canvas_crs' = None
           /\ lastOp'.op \in {"initGui", "unload"} =>
                  clicked_point_canvas_crs' = clicked_point_canvas_crs
           /\ clicked_point_canvas_crs' # clicked_point_canvas_crs =>
                  lastOp'.op = IF clicked_point_canvas_crs' = None
                               THEN "copy_google_maps_link_from_context"
                               ELSE "prepare_canvas_context_menu"
         ]_vars

\* The unload that released the QAction, with a captured point left in
\* place.
C13_Witness ==
    /\ IsUnload
    /\ lastOp.release = "deleteLater"
    /\ lastOp.clickedBefore # None
    /\ clicked_point_canvas_crs = lastOp.clickedBefore

\* The last emission left the "Copy Google Maps Link Here" entry in the
\* menu.
EntryAppended ==
    /\ IsPrepare
    /\ \E i \in 1..Len(lastOp.menu) : lastOp.menu[i] = QAction.text

\* C14: whenever the slot appends the menu entry, the plugin still holds
\* the QAction and has not released it, and the object is alive; after an
\* unload (also when followed by initGui and a valid right-click) no entry
\* is appended.
C14_EntryOwnedWhenAppended ==
    EntryAppended =>
        /\ context_menu_action = QAction
        /\ qaction = "alive"
        /\ deleteLaterCalls = 0

\* A valid right-click on the activated plugin that put the entry after
\* the host's own item.
C14_Witness ==
    /\ EntryAppended
    /\ activated
    /\ ValidEvent
    /\ lastOp.menu = <<"Copy Coordinate", "separator", "Copy Google Maps Link Here">>
    /\ qaction = "alive"

\* A valid right-click delivered after unload and a second initGui: the
\* point is stored, the separator added, and no entry appended.
C14_ReactivatedNoEntry ==
    /\ Delivered
    /\ ValidEvent
    /\ deleteLaterCalls = 1
    /\ ~EntryAppended

\* The copy handler of the step called transform().
TransformCalled(op) ==
    /\ op.op = "copy_google_maps_link_from_context"
    /\ \E i \in 1..Len(op.calls) : op.calls[i] = "transform"

\* C15: in every interleaving of right-clicks, canvas CRS changes and
\* copies, the source CRS of the transform in the copy handler is the CRS
\* the canvas had when the point was captured.
C15_SourceIsCaptureCrs ==
    [][TransformCalled(lastOp') => lastOp'.crs = capturedCrs]_vars

====
